---- MODULE Spec2Model ----
(***************************************************************************)
(* Resumable breadth-first crawl engine of scraper (crawler.py, utils.py,  *)
(* saver.py).                                                              *)
(*                                                                         *)
(* A URL is a sequence of tokens, e.g. https://site/a.php?x#top is         *)
(*   <<"https", "://", "site", "/", "a", ".php", "?", "x", "#", "top">>.   *)
(* urlparse, str.split, str.startswith, str.strip and Path.with_suffix are *)
(* modelled on token sequences.  An output path is the token sequence of   *)
(* the path below output_dir.                                              *)
(***************************************************************************)
EXTENDS Integers, Sequences, FiniteSets, TLC

(***************************************************************************)
(* Bounds of the model.                                                    *)
(***************************************************************************)
MaxRuns == 2
MaxPagesBound == 3
MaxPrefixes == 2

(***************************************************************************)
(* Generic sequence helpers.                                               *)
(***************************************************************************)
Range(s) == {s[i] : i \in 1..Len(s)}

\* str.startswith(prefix)
StartsWith(s, p) == Len(p) <= Len(s) /\ SubSeq(s, 1, Len(p)) = p

\* index of the first token of s that is in the set stop, Len(s) + 1 if none
RECURSIVE FirstIn(_, _, _)
FirstIn(s, stop, i) ==
    IF i > Len(s) THEN Len(s) + 1
    ELSE IF s[i] \in stop THEN i
    ELSE FirstIn(s, stop, i + 1)

\* str.strip(chars): drop the leading and the trailing tokens that are in chars
RECURSIVE LStrip(_, _)
LStrip(s, chars) ==
    IF s # <<>> /\ Head(s) \in chars THEN LStrip(Tail(s), chars) ELSE s

RECURSIVE RStrip(_, _)
RStrip(s, chars) ==
    IF s # <<>> /\ s[Len(s)] \in chars
    THEN RStrip(SubSeq(s, 1, Len(s) - 1), chars)
    ELSE s

Strip(s, chars) == RStrip(LStrip(s, chars), chars)

(***************************************************************************)
(* Ordering of strings, for sorted(): tokens are ranked in code point      *)
(* order of their first character, token sequences lexicographically.      *)
(***************************************************************************)
TokenOrder ==
    << " ", "#", ".PNG", ".html", ".php", "/", ":", "://", "?", "a", "a@b", "b",
       "https", "index", "mailto", "mini", "other", "site", "top", "x" >>

Rank(t) == CHOOSE i \in 1..Len(TokenOrder) : TokenOrder[i] = t

RECURSIVE LexLeq(_, _)
LexLeq(s, t) ==
    IF s = <<>> THEN TRUE
    ELSE IF t = <<>> THEN FALSE
    ELSE IF Head(s) = Head(t) THEN LexLeq(Tail(s), Tail(t))
    ELSE Rank(Head(s)) < Rank(Head(t))

\* sorted(list): insertion sort
RECURSIVE Insert(_, _)
Insert(x, s) ==
    IF s = <<>> THEN <<x>>
    ELSE IF LexLeq(x, Head(s)) THEN <<x>> \o s
    ELSE <<Head(s)>> \o Insert(x, Tail(s))

RECURSIVE Sorted(_)
Sorted(s) == IF s = <<>> THEN <<>> ELSE Insert(Head(s), Sorted(Tail(s)))

\* sorted(set)
RECURSIVE SortedSet(_)
SortedSet(S) ==
    IF S = {} THEN <<>>
    ELSE LET x == CHOOSE y \in S : \A z \in S : LexLeq(y, z)
         IN <<x>> \o SortedSet(S \ {x})

(***************************************************************************)
(* utils.py                                                                *)
(***************************************************************************)
SKIPPED_EXTENSIONS ==
    { ".jpg", ".jpeg", ".png", ".gif", ".webp", ".svg", ".ico", ".pdf", ".zip",
      ".rar", ".7z", ".tar", ".gz", ".mp4", ".mp3", ".avi", ".mov", ".woff",
      ".woff2", ".ttf", ".eot", ".css", ".js" }

\* tokens that are a file name suffix (PurePath.suffix of the last component)
SuffixTokens == SKIPPED_EXTENSIONS \cup {".PNG", ".php", ".html"}

\* str.lower() on one token
Lower(t) == IF t = ".PNG" THEN ".png" ELSE t

\* urlparse(url).scheme
Scheme(url) ==
    IF Len(url) >= 2 /\ url[2] \in {"://", ":"} THEN url[1] ELSE ""

\* urlparse(url).netloc
Netloc(url) ==
    IF Len(url) >= 3 /\ url[2] = "://" THEN url[3] ELSE ""

\* urlparse(url).path: what follows scheme and netloc, up to the query or fragment
UrlPath(url) ==
    LET from == IF Len(url) >= 2 /\ url[2] = "://" THEN 4
                ELSE IF Len(url) >= 2 /\ url[2] = ":" THEN 3
                ELSE 1
        rest == SubSeq(url, from, Len(url))
    IN SubSeq(rest, 1, FirstIn(rest, {"?", "#"}, 1) - 1)

normalize_url(url) == SubSeq(url, 1, FirstIn(url, {"#"}, 1) - 1)

is_same_domain(url, start_domain) == Netloc(url) = start_domain

should_skip_url(url) ==
    IF Scheme(url) \notin {"http", "https"} THEN TRUE
    ELSE LET path == UrlPath(url)
         IN path # <<>> /\ Lower(path[Len(path)]) \in SKIPPED_EXTENSIONS

matches_skipped_path(url, skipped_paths) ==
    IF skipped_paths = <<>> THEN FALSE
    ELSE LET path == IF UrlPath(url) = <<>> THEN <<"/">> ELSE UrlPath(url)
         IN \E i \in 1..Len(skipped_paths) :
               LET prefix == Strip(skipped_paths[i], {" "})
                   normalized_prefix ==
                       IF StartsWith(prefix, <<"/">>) THEN prefix
                       ELSE <<"/">> \o prefix
               IN prefix # <<>> /\ StartsWith(path, normalized_prefix)

matches_url_prefix(url, url_prefixes) ==
    IF url_prefixes = <<>> THEN TRUE
    ELSE \E i \in 1..Len(url_prefixes) :
            url_prefixes[i] # <<>> /\ StartsWith(url, url_prefixes[i])

\* output_dir, the default of the crawl command
output_dir == <<"offline">>

\* output_dir / relative, as a path below output_dir: pathlib drops the "."
\* components of relative
RECURSIVE DropDots(_)
DropDots(s) ==
    IF s = <<>> THEN <<>>
    ELSE IF Head(s) = "." THEN DropDots(LStrip(Tail(s), {"/"}))
    ELSE <<Head(s)>> \o DropDots(Tail(s))

Candidate(relative) == RStrip(DropDots(relative), {"/"})

\* The result is a path below output_dir; when candidate is output_dir
\* itself, with_suffix changes the name of output_dir and the result is its
\* sibling output_dir.html, written here as ../offline.html.
url_to_output_path(url) ==
    LET relative == Strip(UrlPath(url), {"/"})
        candidate == Candidate(relative)
    IN IF relative = <<>> THEN <<"index", ".html">>
       ELSE IF candidate = <<>> THEN <<"..", "/">> \o output_dir \o <<".html">>
       ELSE IF candidate[Len(candidate)] \in SuffixTokens
            THEN SubSeq(candidate, 1, Len(candidate) - 1) \o <<".html">>
            ELSE candidate \o <<".html">>

(***************************************************************************)
(* The site that is crawled: the pages, and the href values             *)
(* page.eval_on_selector_all returns for each page (absolute URLs, in      *)
(* document order).                                                        *)
(***************************************************************************)
Root == <<"https", "://", "site", "/">>
PageA == <<"https", "://", "site", "/", "a">>
PageB == <<"https", "://", "site", "/", "b">>
PageAPhp == <<"https", "://", "site", "/", "a", ".php">>
PageX == <<"https", "://", "site", "/", "a", "/", "x">>
Other == <<"https", "://", "other", "/", "b">>
Image == <<"https", "://", "site", "/", "a", ".PNG">>

\* a second site of three pages: / links to /a, /a to /b, /b to /
MiniRoot == <<"https", "://", "mini", "/">>
MiniA == <<"https", "://", "mini", "/", "a">>
MiniB == <<"https", "://", "mini", "/", "b">>

Links(url) ==
    IF url = Root THEN
        << PageA \o <<"#", "top">>, PageA, <<>>, <<"mailto", ":", "a@b">>,
           Image, Other, PageB >>
    ELSE IF url = PageA THEN << PageAPhp, PageB, Root \o <<"#", "top">> >>
    ELSE IF url = PageB THEN << Root, PageX \o <<"?", "x">> >>
    ELSE IF url = PageAPhp THEN << PageA, PageX >>
    ELSE IF url = PageX THEN << PageB >>
    ELSE IF url = Other THEN << Root >>
    ELSE IF url = MiniRoot THEN << MiniA >>
    ELSE IF url = MiniA THEN << MiniB >>
    ELSE IF url = MiniB THEN << MiniRoot >>
    ELSE << >>

(***************************************************************************)
(* The arguments crawl_site is called with.                                *)
(***************************************************************************)
StartUrls == { Root \o <<"#", "top">>, PageA, Image }
SkippedPathChoices == { <<>>, << <<"a">> >> }
UrlPrefixChoices == { <<>>, << <<"https", "://", "site", "/", "a">> >> }

\* The options of a call: none, or one of them set; a status sink is attached
\* but in the call without options and without a sink.
Plain ==
    [ domain_only |-> FALSE, skipped_paths |-> <<>>, url_prefixes |-> <<>>,
      skip_existing |-> FALSE, status_callback |-> TRUE ]

Options ==
    { Plain,
      [Plain EXCEPT !.status_callback = FALSE],
      [Plain EXCEPT !.domain_only = TRUE],
      [Plain EXCEPT !.skip_existing = TRUE] }
    \cup { [Plain EXCEPT !.skipped_paths = p] : p \in SkippedPathChoices }
    \cup { [Plain EXCEPT !.url_prefixes = p] : p \in UrlPrefixChoices }

\* the second site is crawled without options
ConfigsUpTo(pages) ==
    { [ start_url |-> s, max_pages |-> m, domain_only |-> o.domain_only,
        skipped_paths |-> o.skipped_paths, url_prefixes |-> o.url_prefixes,
        skip_existing |-> o.skip_existing, resume |-> r,
        status_callback |-> o.status_callback ] :
      s \in StartUrls, m \in {pages - 1, pages}, r \in BOOLEAN, o \in Options }
    \cup
    { [ start_url |-> MiniRoot, max_pages |-> m, domain_only |-> Plain.domain_only,
        skipped_paths |-> Plain.skipped_paths, url_prefixes |-> Plain.url_prefixes,
        skip_existing |-> Plain.skip_existing, resume |-> r,
        status_callback |-> Plain.status_callback ] :
      m \in {pages - 1, pages}, r \in BOOLEAN }

Configs == ConfigsUpTo(MaxPagesBound)

IdleConfig ==
    [ start_url |-> PageA, max_pages |-> 1, domain_only |-> FALSE,
      skipped_paths |-> <<>>, url_prefixes |-> <<>>, skip_existing |-> FALSE,
      resume |-> FALSE, status_callback |-> FALSE ]

(***************************************************************************)
(* State.                                                                  *)
(***************************************************************************)
VARIABLES
    pc,           \* "idle", "loop" (at the while test), "fetch" (at the try),
                  \* "done" (returned), "aborted" (raised); "call" and
                  \* "returned" for a call of a pure function
    cfg,          \* the arguments of the current call of crawl_site
    visited,      \* set of URLs
    queue,        \* deque of URLs
    saved,
    failed,
    current_url,
    state_file,   \* the checkpoint file: absent, truncated, or the JSON payload
    files,        \* the output paths that exist below output_dir
    runs,         \* number of calls of crawl_site so far
    procLog,      \* history: <<event, url>> of every URL this run dequeued and did not skip as visited
    iterEvents,   \* history: the status_callback events since the last popleft
    iterSaves,    \* history: the number of _save_state calls since the last popleft
    iterBranch,   \* history: the branch the last popleft took, "none" before the first
    error,        \* the exception that left crawl_site, "none" when there is none
    outcome,      \* history: what happened to each visited URL, in this run or before the adopted checkpoint
    ckOutcome,    \* history: outcome as of the last write of the checkpoint file
    adopted,      \* history: the checkpoint this run adopted, or NoState
    enqueued,     \* history: every URL put into the queue of this run, in order
    call,         \* a call of one of the pure functions: its name and arguments
    result        \* what that call returned, NoResult before it returns

vars ==
    << pc, cfg, visited, queue, saved, failed, current_url, state_file, files,
       runs, procLog, iterEvents, iterSaves, iterBranch, error, outcome,
       ckOutcome, adopted, enqueued, call, result >>

NoFile == [kind |-> "absent"]
TruncatedFile == [kind |-> "truncated"]
NoState == [kind |-> "none"]
NoUrl == <<>>
NoCall == [op |-> "none"]
NoResult == [kind |-> "none"]

normalized_start_url == normalize_url(cfg.start_url)
start_domain == Netloc(normalized_start_url)
path_filters == cfg.skipped_paths
prefix_filters == cfg.url_prefixes

(***************************************************************************)
(* Checkpoint store.                                                       *)
(***************************************************************************)
\* the payload _save_state writes
_save_state(start_url, domain_only, skipped_paths, url_prefixes, skip_existing, q, v, s, f) ==
    [ kind |-> "json",
      start_url |-> start_url,
      domain_only |-> domain_only,
      skipped_paths |-> skipped_paths,
      url_prefixes |-> url_prefixes,
      skip_existing |-> skip_existing,
      queue |-> q,
      visited |-> SortedSet(v),
      saved |-> s,
      failed |-> f ]

\* json.loads raises on a truncated file
LoadRaises(file) == file.kind = "truncated"

_load_state(file) ==
    [ start_url |-> file.start_url,
      domain_only |-> file.domain_only,
      skipped_paths |-> file.skipped_paths,
      url_prefixes |-> file.url_prefixes,
      skip_existing |-> file.skip_existing,
      queue |-> file.queue,
      visited |-> file.visited,
      saved |-> file.saved,
      failed |-> file.failed ]

\* the comparison of line 107 left out
CompatibleIgnoringDomainOnly(state, start_url, domain_only, skipped_paths, url_prefixes, skip_existing) ==
    /\ normalize_url(state.start_url) = normalize_url(start_url)
    /\ Sorted(state.skipped_paths) = Sorted(skipped_paths)
    /\ Sorted(state.url_prefixes) = Sorted(url_prefixes)
    /\ state.skip_existing = skip_existing

_is_state_compatible(state, start_url, domain_only, skipped_paths, url_prefixes, skip_existing) ==
    /\ normalize_url(state.start_url) = normalize_url(start_url)
    /\ state.domain_only = domain_only
    /\ Sorted(state.skipped_paths) = Sorted(skipped_paths)
    /\ Sorted(state.url_prefixes) = Sorted(url_prefixes)
    /\ state.skip_existing = skip_existing

(***************************************************************************)
(* crawl_site, lines 130-152: the initial state, fresh or adopted from the *)
(* checkpoint.                                                             *)
(***************************************************************************)
FreshState(c) ==
    [ visited |-> {}, queue |-> <<normalize_url(c.start_url)>>,
      saved |-> 0, failed |-> 0, adopted |-> FALSE ]

InitialState(c, file) ==
    IF c.resume /\ file.kind # "absent"
    THEN LET state == _load_state(file)
         IN IF _is_state_compatible(state, normalize_url(c.start_url),
                                    c.domain_only, c.skipped_paths,
                                    c.url_prefixes, c.skip_existing)
            THEN [ visited |-> Range(state.visited), queue |-> state.queue,
                   saved |-> state.saved, failed |-> state.failed,
                   adopted |-> TRUE ]
            ELSE FreshState(c)
    ELSE FreshState(c)

\* A process calls crawl_site.  launch_ok: sync_playwright, launch and
\* new_context succeed.
StartRun(c, launch_ok) ==
    /\ pc = "idle"
    /\ runs < MaxRuns
    /\ UNCHANGED <<call, result>>
    /\ runs' = runs + 1
    /\ cfg' = c
    /\ current_url' = NoUrl
    /\ procLog' = <<>>
    /\ iterEvents' = <<>>
    /\ iterSaves' = 0
    /\ iterBranch' = "none"
    /\ UNCHANGED <<state_file, files, ckOutcome>>
    /\ IF c.resume /\ LoadRaises(state_file)
       THEN /\ pc' = "aborted"
            /\ error' = "JSONDecodeError"
            /\ visited' = {}
            /\ queue' = <<normalize_url(c.start_url)>>
            /\ enqueued' = queue'
            /\ saved' = 0
            /\ failed' = 0
            /\ outcome' = <<>>
            /\ adopted' = NoState
       ELSE LET init == InitialState(c, state_file)
            IN /\ pc' = IF launch_ok THEN "loop" ELSE "aborted"
               /\ error' = IF launch_ok THEN "none" ELSE "PlaywrightError"
               /\ visited' = init.visited
               /\ queue' = init.queue
               /\ enqueued' = init.queue
               /\ saved' = init.saved
               /\ failed' = init.failed
               /\ outcome' = IF init.adopted THEN ckOutcome ELSE <<>>
               /\ adopted' = IF init.adopted
                             THEN [ kind |-> "state", queue |-> init.queue,
                                    visited |-> init.visited,
                                    saved |-> init.saved, failed |-> init.failed ]
                             ELSE NoState

(***************************************************************************)
(* crawl_site, lines 154-176: the while test, popleft, the visited check   *)
(* and the dequeue filters.                                                *)
(***************************************************************************)
\* the while test of line 154 with <= for <
LoopConditionOffByOne == queue # <<>> /\ Cardinality(visited) <= cfg.max_pages

\* the while test of line 154 leaving one page early
LoopConditionStopsEarly == queue # <<>> /\ Cardinality(visited) + 1 < cfg.max_pages

LoopCondition == queue # <<>> /\ Cardinality(visited) < cfg.max_pages

\* the "saved" and "failed" calls of status_callback left out
NotifyDequeueOnly(events) ==
    IF cfg.status_callback /\ events \notin {<<"saved">>, <<"failed">>, <<"saved", "failed">>}
    THEN events
    ELSE <<>>

\* lines 160, 165, 170, 175, 184, 204: the calls of status_callback
Notify(events) == IF cfg.status_callback THEN events ELSE <<>>

\* the history of a URL marked visited with event ev
Record(url, ev) == (url :> ev) @@ outcome

\* the visited check of line 156 left out
AlreadyVisitedNever(url) == FALSE

\* line 156
AlreadyVisited(url) == url \in visited

\* the continue of line 157 taken with the URL left in the queue
DequeueVisitedKeepsUrl ==
    /\ pc = "loop"
    /\ UNCHANGED <<enqueued, call, result>>
    /\ LoopCondition
    /\ AlreadyVisited(Head(queue))
    /\ iterBranch' = "visited"
    /\ queue' = queue
    /\ current_url' = Head(queue)
    /\ iterEvents' = <<>>
    /\ iterSaves' = 0
    /\ UNCHANGED <<pc, cfg, visited, saved, failed, state_file, files, runs,
                   procLog, error, outcome, ckOutcome, adopted>>

\* line 156-157: already visited, continue
DequeueVisited ==
    /\ pc = "loop"
    /\ UNCHANGED <<enqueued, call, result>>
    /\ LoopCondition
    /\ AlreadyVisited(Head(queue))
    /\ iterBranch' = "visited"
    /\ queue' = Tail(queue)
    /\ current_url' = Head(queue)
    /\ iterEvents' = <<>>
    /\ iterSaves' = 0
    /\ UNCHANGED <<pc, cfg, visited, saved, failed, state_file, files, runs,
                   procLog, error, outcome, ckOutcome, adopted>>

\* the branches of lines 158-172 without the existing-file test of line 168
DequeueBranchNoExisting(url) ==
    IF ~ matches_url_prefix(url, prefix_filters) THEN "filtered"
    ELSE IF matches_skipped_path(url, path_filters) THEN "skipped"
    ELSE "visiting"

\* the branch of lines 158-172 taken for url, "visiting" when none is
DequeueBranch(url) ==
    IF ~ matches_url_prefix(url, prefix_filters) THEN "filtered"
    ELSE IF matches_skipped_path(url, path_filters) THEN "skipped"
    ELSE IF cfg.skip_existing /\ url_to_output_path(url) \in files THEN "existing"
    ELSE "visiting"

\* lines 158-172: rejected by a dequeue filter, continue
DequeueRejected ==
    /\ pc = "loop"
    /\ UNCHANGED <<enqueued, call, result>>
    /\ LoopCondition
    /\ ~ AlreadyVisited(Head(queue))
    /\ DequeueBranch(Head(queue)) # "visiting"
    /\ iterBranch' = DequeueBranch(Head(queue))
    /\ queue' = Tail(queue)
    /\ current_url' = Head(queue)
    /\ visited' = visited \cup {Head(queue)}
    /\ iterEvents' = Notify(<<DequeueBranch(Head(queue))>>)
    /\ iterSaves' = 0
    /\ procLog' = Append(procLog, <<DequeueBranch(Head(queue)), Head(queue)>>)
    /\ outcome' = Record(Head(queue), DequeueBranch(Head(queue)))
    /\ UNCHANGED <<pc, cfg, saved, failed, state_file, files, runs, error,
                   ckOutcome, adopted>>

\* lines 174-176: admitted, marked visited, about to be fetched
DequeueVisiting ==
    /\ pc = "loop"
    /\ UNCHANGED <<enqueued, call, result>>
    /\ LoopCondition
    /\ ~ AlreadyVisited(Head(queue))
    /\ DequeueBranch(Head(queue)) = "visiting"
    /\ iterBranch' = "visiting"
    /\ queue' = Tail(queue)
    /\ current_url' = Head(queue)
    /\ visited' = visited \cup {Head(queue)}
    /\ iterEvents' = Notify(<<"visiting">>)
    /\ iterSaves' = 0
    /\ procLog' = Append(procLog, <<"visiting", Head(queue)>>)
    /\ pc' = "fetch"
    /\ UNCHANGED <<cfg, saved, failed, state_file, files, runs, error, outcome,
                   ckOutcome, adopted>>

(***************************************************************************)
(* crawl_site, lines 178-221: fetch, save, harvest the links, and the      *)
(* finally clause.                                                         *)
(***************************************************************************)
\* lines 188-201 with the last link of the page left out
RECURSIVE HarvestAllButLast(_, _)
HarvestAllButLast(links, q) ==
    IF Len(links) <= 1 THEN q
    ELSE LET raw_link == Head(links)
             link == normalize_url(raw_link)
         IN IF raw_link = <<>> THEN HarvestAllButLast(Tail(links), q)
            ELSE IF should_skip_url(link) THEN HarvestAllButLast(Tail(links), q)
            ELSE IF ~ matches_url_prefix(link, prefix_filters)
                 THEN HarvestAllButLast(Tail(links), q)
            ELSE IF matches_skipped_path(link, path_filters)
                 THEN HarvestAllButLast(Tail(links), q)
            ELSE IF cfg.domain_only /\ ~ is_same_domain(link, start_domain)
                 THEN HarvestAllButLast(Tail(links), q)
            ELSE IF link \notin visited
                 THEN HarvestAllButLast(Tail(links), Append(q, link))
            ELSE HarvestAllButLast(Tail(links), q)

\* lines 188-201 with the link put at the head of the queue
RECURSIVE HarvestToHead(_, _)
HarvestToHead(links, q) ==
    IF links = <<>> THEN q
    ELSE LET raw_link == Head(links)
             link == normalize_url(raw_link)
         IN IF raw_link = <<>> THEN HarvestToHead(Tail(links), q)
            ELSE IF should_skip_url(link) THEN HarvestToHead(Tail(links), q)
            ELSE IF ~ matches_url_prefix(link, prefix_filters)
                 THEN HarvestToHead(Tail(links), q)
            ELSE IF matches_skipped_path(link, path_filters)
                 THEN HarvestToHead(Tail(links), q)
            ELSE IF cfg.domain_only /\ ~ is_same_domain(link, start_domain)
                 THEN HarvestToHead(Tail(links), q)
            ELSE IF link \notin visited
                 THEN HarvestToHead(Tail(links), <<link>> \o q)
            ELSE HarvestToHead(Tail(links), q)

\* lines 188-201: the queue after the links of one page are harvested
RECURSIVE Harvest(_, _)
Harvest(links, q) ==
    IF links = <<>> THEN q
    ELSE LET raw_link == Head(links)
             link == normalize_url(raw_link)
         IN IF raw_link = <<>> THEN Harvest(Tail(links), q)
            ELSE IF should_skip_url(link) THEN Harvest(Tail(links), q)
            ELSE IF ~ matches_url_prefix(link, prefix_filters)
                 THEN Harvest(Tail(links), q)
            ELSE IF matches_skipped_path(link, path_filters)
                 THEN Harvest(Tail(links), q)
            ELSE IF cfg.domain_only /\ ~ is_same_domain(link, start_domain)
                 THEN Harvest(Tail(links), q)
            ELSE IF link \notin visited THEN Harvest(Tail(links), Append(q, link))
            ELSE Harvest(Tail(links), q)

\* the finally clause saving the queue without its head
FinallyDropsQueueHead(q, s, f) ==
    IF cfg.resume
    THEN _save_state(normalized_start_url, cfg.domain_only, path_filters,
                     prefix_filters, cfg.skip_existing,
                     IF q = <<>> THEN q ELSE Tail(q), visited, s, f)
    ELSE state_file

\* the finally clause saving whether resume is set or not
FinallyIgnoringResume(q, s, f) ==
    _save_state(normalized_start_url, cfg.domain_only, path_filters,
                prefix_filters, cfg.skip_existing, q, visited, s, f)

\* lines 207-220: the checkpoint file after the finally clause
Finally(q, s, f) ==
    IF cfg.resume
    THEN _save_state(normalized_start_url, cfg.domain_only, path_filters,
                     prefix_filters, cfg.skip_existing, q, visited, s, f)
    ELSE state_file

SavesInFinally == IF cfg.resume THEN 1 ELSE 0

\* save_html: the output file of url is written
save_html(url) == files \cup {url_to_output_path(url)}

\* lines 179-201 without an exception
FetchSaved ==
    /\ pc = "fetch"
    /\ files' = save_html(current_url)
    /\ saved' = saved + 1
    /\ queue' = Harvest(Links(current_url), queue)
    /\ enqueued' = enqueued \o SubSeq(queue', Len(queue) + 1, Len(queue'))
    /\ UNCHANGED <<call, result>>
    /\ state_file' = Finally(queue', saved', failed)
    /\ iterEvents' = iterEvents \o Notify(<<"saved">>)
    /\ iterSaves' = iterSaves + SavesInFinally
    /\ outcome' = Record(current_url, "saved")
    /\ ckOutcome' = IF cfg.resume THEN outcome' ELSE ckOutcome
    /\ pc' = "loop"
    /\ UNCHANGED <<cfg, visited, failed, current_url, runs, procLog, iterBranch,
                   error, adopted>>

\* a failed URL is taken out of visited and queued again
FetchFailedRetried ==
    /\ pc = "fetch"
    /\ failed' = failed + 1
    /\ visited' = visited \ {current_url}
    /\ queue' = Append(queue, current_url)
    /\ enqueued' = Append(enqueued, current_url)
    /\ UNCHANGED <<call, result>>
    /\ state_file' = IF cfg.resume
                     THEN _save_state(normalized_start_url, cfg.domain_only,
                                      path_filters, prefix_filters,
                                      cfg.skip_existing, queue', visited',
                                      saved, failed')
                     ELSE state_file
    /\ iterEvents' = iterEvents \o Notify(<<"failed">>)
    /\ iterSaves' = iterSaves + SavesInFinally
    /\ outcome' = Record(current_url, "failed")
    /\ ckOutcome' = IF cfg.resume THEN outcome' ELSE ckOutcome
    /\ pc' = "loop"
    /\ UNCHANGED <<cfg, saved, current_url, files, runs, procLog, iterBranch,
                   error, adopted>>

\* page.goto, wait_for_load_state or content raises: lines 202-206
FetchFailed ==
    /\ pc = "fetch"
    /\ UNCHANGED <<enqueued, call, result>>
    /\ failed' = failed + 1
    /\ state_file' = Finally(queue, saved, failed')
    /\ iterEvents' = iterEvents \o Notify(<<"failed">>)
    /\ iterSaves' = iterSaves + SavesInFinally
    /\ outcome' = Record(current_url, "failed")
    /\ ckOutcome' = IF cfg.resume THEN outcome' ELSE ckOutcome
    /\ pc' = "loop"
    /\ UNCHANGED <<cfg, visited, queue, saved, current_url, files, runs,
                   procLog, iterBranch, error, adopted>>

\* the page is saved, then eval_on_selector_all raises: lines 182-187, 202-206
LinksFailed ==
    /\ pc = "fetch"
    /\ UNCHANGED <<enqueued, call, result>>
    /\ files' = save_html(current_url)
    /\ saved' = saved + 1
    /\ failed' = failed + 1
    /\ state_file' = Finally(queue, saved', failed')
    /\ iterEvents' = iterEvents \o Notify(<<"saved", "failed">>)
    /\ iterSaves' = iterSaves + SavesInFinally
    /\ outcome' = Record(current_url, "linksfailed")
    /\ ckOutcome' = IF cfg.resume THEN outcome' ELSE ckOutcome
    /\ pc' = "loop"
    /\ UNCHANGED <<cfg, visited, queue, current_url, runs, procLog, iterBranch,
                   error, adopted>>

\* save_html raises OSError, which line 202 does not catch: the finally
\* clause runs and the exception leaves crawl_site
SaveHtmlRaises ==
    /\ pc = "fetch"
    /\ UNCHANGED <<enqueued, call, result>>
    /\ state_file' = Finally(queue, saved, failed)
    /\ iterSaves' = iterSaves + SavesInFinally
    /\ outcome' = Record(current_url, "error")
    /\ ckOutcome' = IF cfg.resume THEN outcome' ELSE ckOutcome
    /\ pc' = "aborted"
    /\ error' = "OSError"
    /\ UNCHANGED <<cfg, visited, queue, saved, failed, current_url, files, runs,
                   procLog, iterEvents, iterBranch, adopted>>

\* The process is killed.  At the while test nothing is lost.  During the
\* try statement the page may have been written (html_saved), and the kill
\* may fall inside write_text of _save_state, after the file was opened for
\* writing and before its content is complete (in_write).
Killed(html_saved, in_write) ==
    /\ pc \in {"loop", "fetch"}
    /\ pc = "loop" => ~ html_saved /\ ~ in_write
    /\ in_write => cfg.resume
    /\ files' = IF html_saved THEN save_html(current_url) ELSE files
    /\ state_file' = IF in_write THEN TruncatedFile ELSE state_file
    /\ pc' = "idle"
    /\ cfg' = IdleConfig
    /\ visited' = {}
    /\ queue' = <<>>
    /\ enqueued' = <<>>
    /\ UNCHANGED <<call, result>>
    /\ saved' = 0
    /\ failed' = 0
    /\ current_url' = NoUrl
    /\ procLog' = <<>>
    /\ iterEvents' = <<>>
    /\ iterSaves' = 0
    /\ iterBranch' = "none"
    /\ error' = "none"
    /\ outcome' = <<>>
    /\ adopted' = NoState
    /\ ckOutcome' = IF in_write THEN <<>> ELSE ckOutcome
    /\ UNCHANGED runs

(***************************************************************************)
(* crawl_site, lines 154 and 223-229: the loop ends, the checkpoint is     *)
(* deleted when the queue is empty, the result is returned.                *)
(***************************************************************************)
\* the test of line 226 without "not queue"
UnlinkConditionAnyQueue == cfg.resume /\ state_file.kind # "absent"

\* line 226
UnlinkCondition == cfg.resume /\ queue = <<>> /\ state_file.kind # "absent"

Finish ==
    /\ pc = "loop"
    /\ UNCHANGED <<enqueued, call, result>>
    /\ ~ LoopCondition
    /\ state_file' = IF UnlinkCondition THEN NoFile ELSE state_file
    /\ ckOutcome' = IF state_file' = NoFile THEN <<>> ELSE ckOutcome
    /\ pc' = "done"
    /\ UNCHANGED <<cfg, visited, queue, saved, failed, current_url, files, runs,
                   procLog, iterEvents, iterSaves, iterBranch, error, outcome,
                   adopted>>

CrawlResult ==
    [ saved_pages |-> saved, visited_pages |-> Cardinality(visited),
      failed_pages |-> failed ]

\* crawl_site has returned or raised and its process ends: only the
\* checkpoint file and the output files remain
Exit ==
    /\ pc \in {"done", "aborted"}
    /\ pc' = "idle"
    /\ cfg' = IdleConfig
    /\ visited' = {}
    /\ queue' = <<>>
    /\ enqueued' = <<>>
    /\ UNCHANGED <<call, result>>
    /\ saved' = 0
    /\ failed' = 0
    /\ current_url' = NoUrl
    /\ procLog' = <<>>
    /\ iterEvents' = <<>>
    /\ iterSaves' = 0
    /\ iterBranch' = "none"
    /\ error' = "none"
    /\ outcome' = <<>>
    /\ adopted' = NoState
    /\ UNCHANGED <<state_file, files, runs, ckOutcome>>

(***************************************************************************)
(* Specification.                                                          *)
(***************************************************************************)
Init ==
    /\ pc = "idle"
    /\ cfg = IdleConfig
    /\ visited = {}
    /\ queue = <<>>
    /\ saved = 0
    /\ failed = 0
    /\ current_url = NoUrl
    /\ state_file = NoFile
    /\ files = {}
    /\ runs = 0
    /\ procLog = <<>>
    /\ iterEvents = <<>>
    /\ iterSaves = 0
    /\ iterBranch = "none"
    /\ error = "none"
    /\ outcome = <<>>
    /\ ckOutcome = <<>>
    /\ adopted = NoState
    /\ enqueued = <<>>
    /\ call = NoCall
    /\ result = NoResult

Next ==
    \/ \E c \in Configs, launch_ok \in BOOLEAN : StartRun(c, launch_ok)
    \/ DequeueVisited
    \/ DequeueRejected
    \/ DequeueVisiting
    \/ FetchSaved
    \/ FetchFailed
    \/ LinksFailed
    \/ SaveHtmlRaises
    \/ \E html_saved \in BOOLEAN, in_write \in BOOLEAN : Killed(html_saved, in_write)
    \/ Finish
    \/ Exit

Spec == Init /\ [][Next]_vars

\* The code is sequential: a statement of the loop that can run does run, and
\* a fetch returns or raises within its timeout.  The process may be killed
\* or not.
LoopStep == DequeueVisited \/ DequeueRejected \/ DequeueVisiting \/ Finish

FetchStep == FetchSaved \/ FetchFailed \/ LinksFailed \/ SaveHtmlRaises

CrawlStep == LoopStep \/ FetchStep

\* what a run of the crawl of / with resume leaves behind when it is killed
\* after its first page
CheckpointAfterRoot ==
    _save_state(Root, FALSE, <<>>, <<>>, FALSE,
                <<PageA, PageA, Other, PageB>>, {Root}, 1, 0)

Persisted ==
    { [ state_file |-> NoFile, files |-> {}, ckOutcome |-> <<>> ],
      [ state_file |-> CheckpointAfterRoot, files |-> {<<"index", ".html">>},
        ckOutcome |-> (Root :> "saved") ] }

\* one call of crawl_site, made with no checkpoint and no output files or
\* with those of the killed run
LiveInit ==
    /\ pc = "idle"
    /\ cfg = IdleConfig
    /\ visited = {}
    /\ queue = <<>>
    /\ saved = 0
    /\ failed = 0
    /\ current_url = NoUrl
    /\ \E p \in Persisted :
          /\ state_file = p.state_file
          /\ files = p.files
          /\ ckOutcome = p.ckOutcome
    /\ runs = MaxRuns - 1
    /\ procLog = <<>>
    /\ iterEvents = <<>>
    /\ iterSaves = 0
    /\ iterBranch = "none"
    /\ error = "none"
    /\ outcome = <<>>
    /\ adopted = NoState
    /\ enqueued = <<>>
    /\ call = NoCall
    /\ result = NoResult

LiveSpec == LiveInit /\ [][Next]_vars /\ WF_vars(CrawlStep)

(***************************************************************************)
(* Properties.                                                             *)
(***************************************************************************)
Running == pc \in {"loop", "fetch", "done"}

\* the URLs this run dequeued and did not skip as visited, in order
Processed == [i \in 1..Len(procLog) |-> procLog[i][2]]

AdoptedVisited == IF adopted = NoState THEN {} ELSE adopted.visited

Max(a, b) == IF a >= b THEN a ELSE b

\* C1: in one run, fresh or resumed, no URL is processed or fetched twice: a
\* URL is in visited when it is fetched, no URL is processed a second time,
\* no URL of the adopted visited set is processed, and the step that dequeues
\* a visited URL changes nothing but the queue.
C1_NoUrlProcessedTwice ==
    /\ [](pc = "fetch" => current_url \in visited)
    /\ [](\A i, j \in 1..Len(procLog) : i # j => Processed[i] # Processed[j])
    /\ [](\A i \in 1..Len(procLog) : Processed[i] \notin AdoptedVisited)
    /\ [][ (pc = "loop" /\ pc' \in {"loop", "fetch"} /\ Head(queue) \in visited)
           => /\ pc' = "loop"
              /\ queue' = Tail(queue)
              /\ UNCHANGED <<visited, saved, failed, procLog, state_file, files>>
              /\ iterEvents' = <<>> ]_vars

\* a resumed run dequeues, and skips, a URL that is in the queue twice and
\* was fetched once
C1_Witness ==
    /\ pc = "loop"
    /\ adopted # NoState
    /\ iterBranch = "visited"
    /\ \E i \in 1..Len(procLog) : procLog[i] = <<"visiting", current_url>>

\* C2 as stated: the number of visited URLs never exceeds max_pages, in a
\* resumed run too.
C2_VisitedWithinMaxPages ==
    Running => CrawlResult.visited_pages <= cfg.max_pages

\* C2 as amended: the number of visited URLs never exceeds the larger of
\* max_pages and the number of visited URLs adopted from the checkpoint (so
\* never max_pages in a fresh run), and every URL dequeued and not skipped as
\* visited counts, whether rejected or fetched.
C2_VisitedWithinMaxPagesOrAdopted ==
    Running =>
        /\ CrawlResult.visited_pages
              <= Max(cfg.max_pages, Cardinality(AdoptedVisited))
        /\ CrawlResult.visited_pages
              = Cardinality(AdoptedVisited) + Len(procLog)

\* a run returns with max_pages visited URLs, one of them rejected at dequeue
C2_Witness ==
    /\ pc = "done"
    /\ CrawlResult.visited_pages = cfg.max_pages
    /\ \E i \in 1..Len(procLog) : procLog[i][1] = "existing"
    /\ \E i \in 1..Len(procLog) : procLog[i][1] = "visiting"

\* a URL was dequeued, was not skipped as visited, and the loop is back at
\* the while test: its iteration is complete
IterationDone == pc = "loop" /\ iterBranch \notin {"none", "visited"}

\* C3: with resume enabled, every dequeued URL that was not already visited
\* is followed by exactly one checkpoint save before the next URL is
\* dequeued, whether it was rejected by a filter, fetched, or failed.
C3_OneSavePerProcessedUrl ==
    (IterationDone /\ cfg.resume) => iterSaves = 1

\* C4 as stated: with a status sink, every dequeued URL that was not already
\* visited is followed by exactly one status notification before the next
\* URL is dequeued.
C4_OneNotificationPerProcessedUrl ==
    (IterationDone /\ cfg.status_callback) => Len(iterEvents) = 1

\* C4 as amended: with a status sink, a URL rejected at dequeue gets exactly
\* one notification, the one of its filter; a fetched URL gets "visiting"
\* followed by "saved" when it is saved, by "failed" when its fetch fails, and
\* by "saved" and "failed" when its links cannot be extracted after it was saved:
\* two or three notifications.
C4_NotificationsPerProcessedUrl ==
    (IterationDone /\ cfg.status_callback) =>
        LET last == procLog[Len(procLog)]
        IN /\ last[2] = current_url
           /\ last[1] = iterBranch
           /\ iterBranch \in {"filtered", "skipped", "existing"}
                 => iterEvents = <<iterBranch>>
           /\ iterBranch = "visiting" =>
                 /\ outcome[current_url] = "saved"
                       => iterEvents = <<"visiting", "saved">>
                 /\ outcome[current_url] = "failed"
                       => iterEvents = <<"visiting", "failed">>
                 /\ outcome[current_url] = "linksfailed"
                       => iterEvents = <<"visiting", "saved", "failed">>
                 /\ outcome[current_url] \in {"saved", "failed", "linksfailed"}

\* a page was saved and the sink has heard "visiting" and "saved" for it
C4_Witness ==
    /\ IterationDone
    /\ cfg.status_callback
    /\ outcome[current_url] = "saved"
    /\ Len(iterEvents) = 2

\* the configs of checkpoint file and call c compare equal, the prefix lists
\* as sets
SameConfig(file, c) ==
    /\ normalize_url(file.start_url) = normalize_url(c.start_url)
    /\ file.domain_only = c.domain_only
    /\ Range(file.skipped_paths) = Range(c.skipped_paths)
    /\ Range(file.url_prefixes) = Range(c.url_prefixes)
    /\ file.skip_existing = c.skip_existing

\* C5: a call with resume that finds a checkpoint starts from the
\* checkpoint's visited, queue, saved and failed when the configs are
\* compatible, and otherwise, without an error, from visited = {},
\* queue = [normalized start URL], saved = 0, failed = 0.
C5_ResumeAdoptsCompatibleCheckpoint ==
    [][ (pc = "idle" /\ pc' # "idle" /\ cfg'.resume /\ state_file.kind = "json")
        => /\ error' # "JSONDecodeError"
           /\ pc' = "loop" =>
                IF SameConfig(state_file, cfg')
                THEN /\ visited' = Range(state_file.visited)
                     /\ queue' = state_file.queue
                     /\ saved' = state_file.saved
                     /\ failed' = state_file.failed
                ELSE /\ visited' = {}
                     /\ queue' = <<normalize_url(cfg'.start_url)>>
                     /\ saved' = 0
                     /\ failed' = 0 ]_vars

\* a run has just adopted a checkpoint that holds visited URLs, a queue and
\* counters
C5_Witness ==
    /\ pc = "loop"
    /\ iterBranch = "none"
    /\ adopted # NoState
    /\ visited = adopted.visited
    /\ visited # {}
    /\ queue # <<>>
    /\ saved + failed > 0

\* a run with resume has just ignored a checkpoint whose domain_only differs
C5_IgnoredReached ==
    /\ pc = "loop"
    /\ iterBranch = "none"
    /\ cfg.resume
    /\ state_file.kind = "json"
    /\ state_file.domain_only # cfg.domain_only
    /\ state_file.start_url = normalized_start_url
    /\ adopted = NoState

\* C6: a call with resume that finds a corrupt checkpoint file does not
\* abort: it starts a fresh crawl from the start URL.
C6_CorruptCheckpointStartsFresh ==
    ( /\ cfg.resume
      /\ state_file.kind = "truncated"
      /\ pc \in {"loop", "aborted"}
      /\ iterBranch = "none"
      /\ error # "PlaywrightError" )
    => /\ pc = "loop"
       /\ error = "none"
       /\ visited = {}
       /\ queue = <<normalized_start_url>>
       /\ saved = 0
       /\ failed = 0

\* the URLs whose fetch failed, in this run or before the adopted checkpoint
FailedUrls == {u \in DOMAIN outcome : outcome[u] = "failed"}

\* C7: a fetch failure adds one to failed, leaves saved alone, does not leave
\* crawl_site, and the loop goes on; the failed URL stays in visited and is
\* not fetched again, in this run or in a run resumed from its checkpoint.
C7_FetchFailureCountedNotRetried ==
    /\ [][ ( /\ pc = "fetch"
             /\ current_url \in DOMAIN outcome'
             /\ outcome'[current_url] = "failed" )
           => /\ failed' = failed + 1
              /\ saved' = saved
              /\ pc' = "loop"
              /\ error' = "none"
              /\ visited' = visited
              /\ queue' = queue ]_vars
    /\ [](FailedUrls \subseteq visited)
    /\ [](pc = "fetch" => current_url \notin FailedUrls)

\* a resumed run whose checkpoint holds a failed URL has fetched another URL
C7_Witness ==
    /\ pc = "loop"
    /\ adopted # NoState
    /\ FailedUrls \cap adopted.visited # {}
    /\ iterBranch = "visiting"
    /\ current_url \notin adopted.visited

\* C8: with resume, the checkpoint file is deleted only at the end of a run
\* whose loop ended with the queue empty, never while the queue is non-empty
\* and never by a run that aborts; after a run that drained the queue there
\* is no checkpoint file.
C8_CheckpointDeletedIffQueueDrained ==
    /\ [][ (state_file.kind # "absent" /\ state_file'.kind = "absent")
           => /\ pc = "loop"
              /\ pc' = "done"
              /\ cfg.resume
              /\ queue = <<>> ]_vars
    /\ []((pc = "done" /\ cfg.resume /\ queue = <<>>) => state_file.kind = "absent")

\* a run wrote the checkpoint in its last iteration, drained the queue and
\* returned with the file gone
C8_Witness ==
    /\ pc = "done"
    /\ cfg.resume
    /\ queue = <<>>
    /\ iterSaves = 1
    /\ state_file.kind = "absent"

\* C9: when a run with resume leaves its loop at max_pages visited URLs with
\* the queue non-empty, the checkpoint file exists and holds the queue,
\* visited, saved and failed the run ended with.
C9_CheckpointMatchesStateAtMaxPages ==
    ( /\ pc = "done"
      /\ cfg.resume
      /\ queue # <<>>
      /\ Cardinality(visited) >= cfg.max_pages )
    => /\ state_file.kind = "json"
       /\ state_file.queue = queue
       /\ Range(state_file.visited) = visited
       /\ state_file.saved = saved
       /\ state_file.failed = failed

\* the links of page url that the current config lets into the queue
LinkTargets(url) ==
    { normalize_url(Links(url)[i]) : i \in
        { j \in 1..Len(Links(url)) :
            LET link == normalize_url(Links(url)[j])
            IN /\ Links(url)[j] # <<>>
               /\ ~ should_skip_url(link)
               /\ matches_url_prefix(link, prefix_filters)
               /\ ~ matches_skipped_path(link, path_filters)
               /\ cfg.domain_only => is_same_domain(link, start_domain) } }

\* the URLs reachable from the set S of URLs over such links
RECURSIVE Reachable(_)
Reachable(S) ==
    LET more == S \cup UNION {LinkTargets(u) : u \in S}
    IN IF more = S THEN S ELSE Reachable(more)

\* V united with the URLs reachable from Q, for the adopted checkpoint
AdoptedClosure == adopted.visited \cup Reachable(Range(adopted.queue))

PassesFilterChain(url) ==
    /\ Scheme(url) \in {"http", "https"}
    /\ ~ should_skip_url(url)
    /\ matches_url_prefix(url, prefix_filters)
    /\ ~ matches_skipped_path(url, path_filters)
    /\ cfg.domain_only => is_same_domain(url, start_domain)
    /\ cfg.skip_existing => url_to_output_path(url) \notin files

\* C11: every URL that is fetched, the start URL and the URLs of a resumed
\* queue included, has passed the whole filter chain: scheme, extension, URL
\* prefix, path skip, domain when domain_only is set, and existing file when
\* skip_existing is set.
C11_FetchedUrlPassedFilterChain ==
    pc = "fetch" => PassesFilterChain(current_url)

\* the first occurrences of the elements of s, in order
RECURSIVE Dedupe(_)
Dedupe(s) ==
    IF s = <<>> THEN <<>>
    ELSE LET front == Dedupe(SubSeq(s, 1, Len(s) - 1))
         IN IF s[Len(s)] \in Range(front) THEN front
            ELSE Append(front, s[Len(s)])

\* the URLs of this run in the order of their first enqueue, without the
\* URLs that were visited before the adopted checkpoint
FirstEnqueueOrder ==
    SelectSeq(Dedupe(enqueued), LAMBDA u : u \notin AdoptedVisited)

\* the links of page url, normalized, in the order they were extracted
NormalizedLinks(url) ==
    [j \in 1..Len(Links(url)) |-> normalize_url(Links(url)[j])]

\* the admitted links of page url that are not visited, in extraction order,
\* repetitions kept
NewLinks(url) ==
    SelectSeq(NormalizedLinks(url),
              LAMBDA l : l \in LinkTargets(url) /\ l \notin visited)

\* C12: the crawl is breadth-first: the admitted links not in visited are
\* appended to the queue tail in extraction order, with no deduplication
\* against the queue; URLs leave the queue only at its head; and the URLs
\* are processed in the order of their first enqueue.
C12_BreadthFirst ==
    /\ [](Running =>
            /\ Len(Processed) <= Len(FirstEnqueueOrder)
            /\ Processed = SubSeq(FirstEnqueueOrder, 1, Len(Processed)))
    /\ [][ (pc \in {"loop", "fetch"} /\ pc' \in {"loop", "fetch", "done", "aborted"}) =>
             \/ queue' = queue
             \/ /\ pc = "loop"
                /\ queue # <<>>
                /\ queue' = Tail(queue)
                /\ current_url' = Head(queue)
             \/ /\ pc = "fetch"
                /\ queue' = queue \o NewLinks(current_url) ]_vars

\* three URLs were processed and the queue holds the same URL twice
C12_Witness ==
    /\ pc = "loop"
    /\ Len(Processed) >= 3
    /\ \E i, j \in 1..Len(queue) : i < j /\ queue[i] = queue[j]

\* the pages reachable from the start URL over links the harvest admits
ReachableFromStart == Reachable({normalized_start_url})

\* C13: a fresh crawl on which every fetch succeeded and no page was
\* rejected, with max_pages at least the number of pages reachable from the
\* start URL, returns visited_pages = saved_pages = that number and
\* failed_pages = 0.
C13_FullCrawlCounts ==
    ( /\ pc = "done"
      /\ adopted = NoState
      /\ \A u \in visited : outcome[u] = "saved"
      /\ Cardinality(ReachableFromStart) <= cfg.max_pages )
    => CrawlResult = [ saved_pages |-> Cardinality(ReachableFromStart),
                       visited_pages |-> Cardinality(ReachableFromStart),
                       failed_pages |-> 0 ]

\* the site /, /a, /b was crawled without options from / and the crawl
\* returned 3 visited, 3 saved, 0 failed
C13_Witness ==
    /\ pc = "done"
    /\ adopted = NoState
    /\ normalized_start_url = MiniRoot
    /\ visited = {MiniRoot, MiniA, MiniB}
    /\ CrawlResult = [saved_pages |-> 3, visited_pages |-> 3, failed_pages |-> 0]

\* C14: a crash during a checkpoint save leaves the checkpoint file as the
\* prior valid checkpoint or as the complete new one: the file on disk is
\* never empty or partially written.
C14_CheckpointNeverPartial ==
    state_file.kind \in {"absent", "json"}

(***************************************************************************)
(* Calls of _is_state_compatible and url_to_output_path on their own.      *)
(***************************************************************************)
SeqsUpTo(S, n) == UNION { [1..k -> S] : k \in 0..n }

\* lists of skipped path prefixes and of URL prefixes, in every order and
\* with repetitions
PathPrefixLists == SeqsUpTo({ <<"/", "a">>, <<"b">> }, MaxPrefixes)
UrlPrefixLists == SeqsUpTo({ <<"https", "://", "site", "/", "a">> }, MaxPrefixes)

ConfigIdentities ==
    [ start_url : {Root, Root \o <<"#", "top">>}, domain_only : BOOLEAN,
      skipped_paths : PathPrefixLists, url_prefixes : UrlPrefixLists,
      skip_existing : BOOLEAN ]

CompatibleCalls ==
    { [ op |-> "_is_state_compatible", state |-> st, start_url |-> c.start_url,
        domain_only |-> c.domain_only, skipped_paths |-> c.skipped_paths,
        url_prefixes |-> c.url_prefixes, skip_existing |-> c.skip_existing ] :
      st \in ConfigIdentities, c \in ConfigIdentities }

PathChoices ==
    { <<>>, <<"/">>, <<"/", "a">>, <<"/", "a", "/">>, <<"/", "a", "/", "b">>,
      <<"/", "a", "/", "b", ".php">>, <<"/", "a", ".PNG">>, <<"/", ".">>,
      <<"/", "a", "/", ".">> }
QueryChoices == { <<>>, <<"?", "x">> }
FragmentChoices == { <<>>, <<"#", "top">> }

OutputPathCalls ==
    { [ op |-> "url_to_output_path",
        url |-> <<"https", "://", "site">> \o p \o q \o f ] :
      p \in PathChoices, q \in QueryChoices, f \in FragmentChoices }

CallIsStateCompatible ==
    /\ pc = "call"
    /\ call.op = "_is_state_compatible"
    /\ result' = [ kind |-> "value",
                   value |-> _is_state_compatible(call.state, call.start_url,
                                 call.domain_only, call.skipped_paths,
                                 call.url_prefixes, call.skip_existing) ]
    /\ pc' = "returned"
    /\ UNCHANGED << cfg, visited, queue, saved, failed, current_url, state_file,
                    files, runs, procLog, iterEvents, iterSaves, iterBranch,
                    error, outcome, ckOutcome, adopted, enqueued, call >>

CallUrlToOutputPath ==
    /\ pc = "call"
    /\ call.op = "url_to_output_path"
    /\ result' = [kind |-> "value", value |-> url_to_output_path(call.url)]
    /\ pc' = "returned"
    /\ UNCHANGED << cfg, visited, queue, saved, failed, current_url, state_file,
                    files, runs, procLog, iterEvents, iterSaves, iterBranch,
                    error, outcome, ckOutcome, adopted, enqueued, call >>

FnInit ==
    /\ pc = "call"
    /\ call \in CompatibleCalls \cup OutputPathCalls
    /\ result = NoResult
    /\ cfg = IdleConfig
    /\ visited = {}
    /\ queue = <<>>
    /\ saved = 0
    /\ failed = 0
    /\ current_url = NoUrl
    /\ state_file = NoFile
    /\ files = {}
    /\ runs = 0
    /\ procLog = <<>>
    /\ iterEvents = <<>>
    /\ iterSaves = 0
    /\ iterBranch = "none"
    /\ error = "none"
    /\ outcome = <<>>
    /\ ckOutcome = <<>>
    /\ adopted = NoState
    /\ enqueued = <<>>

FnNext ==
    \/ CallIsStateCompatible
    \/ CallUrlToOutputPath

FnSpec == FnInit /\ [][FnNext]_vars

\* the two configs are equal, the prefix lists taken as sets
EqualAsSets(state, start_url, domain_only, skipped_paths, url_prefixes, skip_existing) ==
    /\ normalize_url(state.start_url) = normalize_url(start_url)
    /\ state.domain_only = domain_only
    /\ state.skip_existing = skip_existing
    /\ Range(state.skipped_paths) = Range(skipped_paths)
    /\ Range(state.url_prefixes) = Range(url_prefixes)

\* C15: _is_state_compatible returns true if and only if the start URLs are
\* equal after normalization, domain_only and skip_existing are equal, and
\* the skipped path prefixes and the URL prefixes are equal as sets, whatever
\* the order and the repetitions in the lists.
C15_CompatibleIffEqualAsSets ==
    (pc = "returned" /\ call.op = "_is_state_compatible") =>
        ( result.value <=>
          EqualAsSets(call.state, call.start_url, call.domain_only,
                      call.skipped_paths, call.url_prefixes, call.skip_existing) )

\* the path of the URL, leading and trailing slashes stripped
StrippedPath(url) == Strip(UrlPath(url), {"/"})

\* C16: url_to_output_path maps an empty path to index.html and a non-empty
\* path to that path with its last extension replaced by .html, or .html
\* appended when it has none, below the output root; the query and the
\* fragment do not influence the result.
C16_OutputPathFromPathOnly ==
    (pc = "returned" /\ call.op = "url_to_output_path") =>
        LET path == StrippedPath(call.url)
        IN /\ result.kind = "value"
           /\ path = <<>> => result.value = <<"index", ".html">>
           /\ path # <<>> =>
                 result.value =
                    IF path[Len(path)] \in SuffixTokens
                    THEN SubSeq(path, 1, Len(path) - 1) \o <<".html">>
                    ELSE path \o <<".html">>
           /\ \A other \in OutputPathCalls :
                 UrlPath(other.url) = UrlPath(call.url)
                    => url_to_output_path(other.url) = result.value

\* C17: every fetched URL adds one to exactly one of saved and failed, so
\* in a fresh run saved + failed is at most the number of visited URLs, also
\* when the page was saved and the link extraction then raised.
C17_SavedPlusFailedWithinVisited ==
    /\ []((Running /\ adopted = NoState) => saved + failed <= Cardinality(visited))
    /\ [][ (pc = "fetch" /\ pc' = "loop") =>
             \/ saved' = saved + 1 /\ failed' = failed
             \/ saved' = saved /\ failed' = failed + 1 ]_vars

\* the checkpoint file was adopted or written by the current run
CheckpointOfThisRun ==
    /\ pc \in {"loop", "fetch", "done", "aborted"}
    /\ cfg.resume
    /\ state_file.kind = "json"
    /\ SameConfig(state_file, cfg)

InLoop == pc \in {"loop", "fetch"}

\* C19: on a finite site, for every max_pages, the loop of crawl_site ends,
\* and when it ends by its test the queue is empty or max_pages URLs are
\* visited, also when the queue holds repeated and visited URLs.
C19_LoopTerminates ==
    /\ InLoop ~> ~ InLoop
    /\ [](pc = "done" => (queue = <<>> \/ Cardinality(visited) >= cfg.max_pages))

\* the state the killed run leaves behind is a state of the program
C19_PersistedReached ==
    /\ pc = "idle"
    /\ \E p \in Persisted :
          /\ p.state_file # NoFile
          /\ state_file = p.state_file
          /\ files = p.files
          /\ ckOutcome = p.ckOutcome

\* the loop of a resumed run has ended after a URL was taken out of the
\* queue that was visited already: more URLs were put in the queue than are
\* left in it or were processed
C19_Witness ==
    /\ pc = "done"
    /\ adopted # NoState
    /\ Len(enqueued) > Len(Processed) + Len(queue)

\* C20: a call without resume does not read the checkpoint file (it starts
\* fresh and without an error whatever the file holds) and does not write or
\* delete it: the file is the same after every step of the call.
C20_NoResumeLeavesCheckpointAlone ==
    /\ [][ (pc = "idle" /\ pc' # "idle" /\ ~ cfg'.resume) =>
             /\ state_file' = state_file
             /\ error' # "JSONDecodeError"
             /\ adopted' = NoState
             /\ visited' = {}
             /\ queue' = <<normalize_url(cfg'.start_url)>>
             /\ saved' = 0
             /\ failed' = 0 ]_vars
    /\ [][ (pc \in {"loop", "fetch", "done", "aborted"} /\ ~ cfg.resume) =>
             state_file' = state_file ]_vars

\* a call without resume has crawled pages and drained its queue, and the
\* checkpoint an earlier call left for the same config is still there
C20_Witness ==
    /\ pc = "done"
    /\ ~ cfg.resume
    /\ queue = <<>>
    /\ saved > 1
    /\ state_file.kind = "json"
    /\ SameConfig(state_file, cfg)

\* the URLs this run saved, the output paths it wrote and the number of
\* saves it counted
SavedUrls ==
    { u \in Range(Processed) :
        u \in DOMAIN outcome /\ outcome[u] \in {"saved", "linksfailed"} }

WrittenPaths == { url_to_output_path(u) : u \in SavedUrls }

SavedByThisRun == saved - (IF adopted = NoState THEN 0 ELSE adopted.saved)

\* C21 as stated: within one run two distinct saved URLs are written to
\* distinct output paths, and the saved counter equals the number of
\* distinct files the run wrote.
C21_SavedUrlsHaveDistinctPaths ==
    Running =>
        /\ \A u, v \in SavedUrls :
              u # v => url_to_output_path(u) # url_to_output_path(v)
        /\ SavedByThisRun = Cardinality(WrittenPaths)

\* C21 as amended: within one run every saved URL is counted once and its
\* output path exists; the saved counter is at least the number of distinct
\* files the run wrote; with skip_existing two distinct saved URLs have
\* distinct output paths and the counter equals the number of files.
C21_SavedCountsUrlsNotFiles ==
    Running =>
        /\ SavedByThisRun = Cardinality(SavedUrls)
        /\ WrittenPaths \subseteq files
        /\ SavedByThisRun >= Cardinality(WrittenPaths)
        /\ cfg.skip_existing =>
              /\ \A u, v \in SavedUrls :
                    u # v => url_to_output_path(u) # url_to_output_path(v)
              /\ SavedByThisRun = Cardinality(WrittenPaths)

\* a run without skip_existing has saved /a and /a.php to the one file
\* a.html
C21_Witness ==
    /\ Running
    /\ ~ cfg.skip_existing
    /\ {PageA, PageAPhp} \subseteq SavedUrls
    /\ url_to_output_path(PageA) = url_to_output_path(PageAPhp)
    /\ SavedByThisRun > Cardinality(WrittenPaths)

\* a run with skip_existing has saved two pages and rejected a URL whose
\* output path one of them had written
C21_SkipExistingReached ==
    /\ Running
    /\ cfg.skip_existing
    /\ Cardinality(SavedUrls) >= 2
    /\ \E i \in 1..Len(procLog) :
          /\ procLog[i][1] = "existing"
          /\ url_to_output_path(procLog[i][2]) \in WrittenPaths

====
